---------------------------- MODULE Spec2Model ----------------------------
(***************************************************************************)
(* A model of the numeric core of the buy-versus-rent calculator           *)
(* (src/app.py): the amortization solver calculate_amortization and the    *)
(* three net-worth simulators buying_vs_renting, buying_vs_renting2 and    *)
(* buying_vs_renting3.                                                     *)
(*                                                                         *)
(* Numbers.  The program computes with Python numbers.  The model computes *)
(* with exact rationals over unbounded integers: every sum, difference,     *)
(* product, quotient and power                                             *)
(* of the source is the exact operation, so the model states what the      *)
(* formulas of the code compute and leaves binary64 rounding out.  TLC's   *)
(* own integers are 32 bits wide, so integers are kept as sequences of     *)
(* limbs (prefix N), signed integers as a sign and a magnitude (prefix Z)  *)
(* and a rational as a signed numerator over a bag of denominator factors  *)
(* (prefix R).                                                             *)
(***************************************************************************)
EXTENDS Integers, Sequences, FiniteSets, TLC

----------------------------------------------------------------------------
(* Unbounded naturals: little-endian limb sequences, no leading zero limb. *)
(* The operators that work through the limbs split the range in halves,   *)
(* so that the depth of the evaluation stays logarithmic, and hand        *)
(* intermediate values on as parameters.                                  *)

Base == 10 * 10 * 10

NFromInt(k) ==
    IF k = 0 THEN << >>
    ELSE IF k < Base THEN << k >>
    ELSE IF k < Base * Base THEN << k % Base, k \div Base >>
    ELSE IF k < Base * Base * Base
         THEN << k % Base, (k \div Base) % Base, k \div (Base * Base) >>
    ELSE << k % Base, (k \div Base) % Base, (k \div (Base * Base)) % Base,
            k \div (Base * Base * Base) >>

RECURSIVE NStrip(_)
NStrip(a) ==
    IF a = << >> THEN a
    ELSE IF a[Len(a)] = 0 THEN NStrip(SubSeq(a, 1, Len(a) - 1))
    ELSE a

(* Carry propagation over limb sums c[lo..hi] with carry cin coming in:   *)
(* the limbs d and the carry c going out.  A limb sum may be negative (a  *)
(* difference); \div and % round towards minus infinity.                  *)
NCarryLimb(s) == [d |-> << s % Base >>, c |-> s \div Base]

NCarryCat(l, r) == [d |-> l.d \o r.d, c |-> r.c]

RECURSIVE NCarry(_, _, _, _)
RECURSIVE NCarryHigh(_, _, _, _)
NCarry(c, lo, hi, cin) ==
    IF lo = hi THEN NCarryLimb(c[lo] + cin)
    ELSE NCarryHigh(c, (lo + hi) \div 2, hi, NCarry(c, lo, (lo + hi) \div 2, cin))

NCarryHigh(c, mid, hi, l) ==
    IF l.c < 0 - Base THEN l ELSE NCarryCat(l, NCarry(c, mid + 1, hi, l.c))

NNormOf(r) == NStrip(r.d \o NFromInt(r.c))

NNorm(c) == IF c = << >> THEN c ELSE NNormOf(NCarry(c, 1, Len(c), 0))

NLimb(a, i) == IF i <= Len(a) THEN a[i] ELSE 0

NMax(x, y) == IF x >= y THEN x ELSE y

NAdd(a, b) ==
    IF a = << >> THEN b
    ELSE IF b = << >> THEN a
    ELSE NNorm([i \in 1..NMax(Len(a), Len(b)) |-> NLimb(a, i) + NLimb(b, i)])

(* a - b for a >= b. *)
NSub(a, b) ==
    IF b = << >> THEN a
    ELSE NNorm([i \in 1..Len(a) |-> a[i] - NLimb(b, i)])

(* The order of a[lo..hi] and b[lo..hi], the high limbs deciding first. *)
RECURSIVE NCmpRange(_, _, _, _)
RECURSIVE NCmpLow(_, _, _, _, _)
NCmpRange(a, b, lo, hi) ==
    IF lo = hi
    THEN IF a[lo] > b[lo] THEN 1 ELSE IF a[lo] < b[lo] THEN -1 ELSE 0
    ELSE NCmpLow(a, b, lo, (lo + hi) \div 2,
                 NCmpRange(a, b, (lo + hi) \div 2 + 1, hi))

NCmpLow(a, b, lo, mid, top) ==
    IF top # 0 THEN top ELSE NCmpRange(a, b, lo, mid)

NCmp(a, b) ==
    IF Len(a) > Len(b) THEN 1
    ELSE IF Len(a) < Len(b) THEN -1
    ELSE IF a = b THEN 0
    ELSE NCmpRange(a, b, 1, Len(a))

(* One limb of the product: the sum of a[i] * b[k + 1 - i], i in lo..hi. *)
RECURSIVE NConv(_, _, _, _, _)
NConv(a, b, k, lo, hi) ==
    IF lo = hi THEN a[lo] * b[k + 1 - lo]
    ELSE NConv(a, b, k, lo, (lo + hi) \div 2)
         + NConv(a, b, k, (lo + hi) \div 2 + 1, hi)

NMul(a, b) ==
    IF a = << >> \/ b = << >> THEN << >>
    ELSE IF b = << 1 >> THEN a
    ELSE IF a = << 1 >> THEN b
    ELSE NNorm([k \in 1..(Len(a) + Len(b) - 1) |->
                   NConv(a, b, k, NMax(1, k + 1 - Len(b)),
                         IF k < Len(a) THEN k ELSE Len(a))])

(* a^k from h = a^(k \div 2). *)
NPowOf(a, k, h) == IF k % 2 = 0 THEN NMul(h, h) ELSE NMul(NMul(h, h), a)

RECURSIVE NPow(_, _)
NPow(a, k) ==
    IF k = 0 THEN << 1 >>
    ELSE IF k = 1 THEN a
    ELSE NPowOf(a, k, NPow(a, k \div 2))

(* a[lo..hi] divided by f, Base * f a machine integer, the remainder rin  *)
(* coming in from the limbs above: the limbs q of the quotient and the    *)
(* remainder r going out.                                                 *)
NDivLimb(cur, f) == [q |-> << cur \div f >>, r |-> cur % f]

NDivCat(top, bot) == [q |-> bot.q \o top.q, r |-> bot.r]

RECURSIVE NDivRange(_, _, _, _, _)
RECURSIVE NDivLow(_, _, _, _, _)
NDivRange(a, f, lo, hi, rin) ==
    IF lo = hi THEN NDivLimb(rin * Base + a[lo], f)
    ELSE NDivLow(a, f, lo, (lo + hi) \div 2,
                 NDivRange(a, f, (lo + hi) \div 2 + 1, hi, rin))

NDivLow(a, f, lo, mid, top) ==
    IF top.r < 0 THEN top ELSE NDivCat(top, NDivRange(a, f, lo, mid, top.r))

----------------------------------------------------------------------------
(* Signed integers: s is the sign (-1, 0, 1), m the magnitude. *)

ZZero == [s |-> 0, m |-> << >>]

ZMake(s, m) == IF m = << >> THEN ZZero ELSE [s |-> s, m |-> m]

ZFromInt(k) ==
    IF k = 0 THEN ZZero
    ELSE IF k > 0 THEN [s |-> 1, m |-> NFromInt(k)]
    ELSE [s |-> -1, m |-> NFromInt(0 - k)]

ZNeg(x) == [s |-> 0 - x.s, m |-> x.m]

(* x + y for x and y of opposite signs, c the order of their magnitudes. *)
ZAddOpposite(x, y, c) ==
    IF c = 0 THEN ZZero
    ELSE IF c > 0 THEN [s |-> x.s, m |-> NSub(x.m, y.m)]
    ELSE [s |-> y.s, m |-> NSub(y.m, x.m)]

ZAdd(x, y) ==
    IF x.s = 0 THEN y
    ELSE IF y.s = 0 THEN x
    ELSE IF x.s = y.s THEN [s |-> x.s, m |-> NAdd(x.m, y.m)]
    ELSE ZAddOpposite(x, y, NCmp(x.m, y.m))

ZMulN(x, n) == ZMake(x.s, NMul(x.m, n))

ZMul(x, y) == ZMake(x.s * y.s, NMul(x.m, y.m))

----------------------------------------------------------------------------
(* Rationals: n is the signed numerator, d a bag of denominator factors   *)
(* (a function from factors, themselves naturals, to how often each       *)
(* occurs).  The value is n divided by the product of the bag.  A value   *)
(* has many representations; values are compared with RCmp, never with =. *)

EmptyBag == << >>

BagOf(a, k) == IF k = 0 THEN EmptyBag ELSE [x \in {a} |-> k]

BagCount(b, a) == IF a \in DOMAIN b THEN b[a] ELSE 0

BagSum(b1, b2) ==
    IF DOMAIN b1 = {} THEN b2
    ELSE IF DOMAIN b2 = {} THEN b1
    ELSE [a \in (DOMAIN b1) \cup (DOMAIN b2) |-> BagCount(b1, a) + BagCount(b2, a)]

BagLcm(b1, b2) ==
    IF b1 = b2 THEN b1
    ELSE [a \in (DOMAIN b1) \cup (DOMAIN b2) |->
             NMax(BagCount(b1, a), BagCount(b2, a))]

BagDiff(b1, b2) ==
    [a \in {x \in DOMAIN b1 : b1[x] > BagCount(b2, x)} |-> b1[a] - BagCount(b2, a)]

BagPositive(b) == [a \in {x \in DOMAIN b : b[x] > 0} |-> b[a]]

RECURSIVE BagProdOver(_, _)
RECURSIVE BagProdFrom(_, _, _)
BagProdOver(b, S) ==
    IF S = {} THEN << 1 >> ELSE BagProdFrom(b, S, CHOOSE x \in S : TRUE)

BagProdFrom(b, S, a) == NMul(NPow(a, b[a]), BagProdOver(b, S \ {a}))

BagProd(b) == BagProdOver(b, DOMAIN b)

(* The remainder of a[lo..hi] divided by f, the remainder rin coming in   *)
(* from the limbs above.                                                  *)
RECURSIVE NModRange(_, _, _, _, _)
RECURSIVE NModLow(_, _, _, _, _)
NModRange(a, f, lo, hi, rin) ==
    IF lo = hi THEN (rin * Base + a[lo]) % f
    ELSE NModLow(a, f, lo, (lo + hi) \div 2,
                 NModRange(a, f, (lo + hi) \div 2 + 1, hi, rin))

NModLow(a, f, lo, mid, top) ==
    IF top < 0 THEN top ELSE NModRange(a, f, lo, mid, top)

(* A power p = f^j of f with j <= c that NDivRange can divide by, found   *)
(* by squaring.                                                           *)
RECURSIVE ChunkOf(_, _, _, _)
ChunkOf(f, c, j, p) ==
    IF 2 * j <= c /\ p < Base /\ p * p <= 2000 * Base
    THEN ChunkOf(f, c, 2 * j, p * p)
    ELSE [j |-> j, p |-> p]

(* A common factor f of the magnitude m and of a denominator that holds   *)
(* f c times is cancelled: the magnitude and the count that remain.  The  *)
(* division is by ch.p = f^ch.j, ch.j <= jmax; when that does not divide  *)
(* m, jmax is halved.  At most fuel divisions succeed.  The value of the  *)
(* rational does not change, whatever is cancelled.                       *)
RECURSIVE CancelFactor(_, _, _, _, _)
RECURSIVE CancelBy(_, _, _, _, _, _)
RECURSIVE CancelDivided(_, _, _, _, _, _, _)
CancelFactor(m, f, c, jmax, fuel) ==
    IF c = 0 \/ jmax = 0 \/ fuel = 0 THEN [m |-> m, c |-> c]
    ELSE IF Base % f = 0 /\ m[1] % f # 0 THEN [m |-> m, c |-> c]
    ELSE IF NModRange(m, f, 1, Len(m), 0) # 0 THEN [m |-> m, c |-> c]
    ELSE CancelBy(m, f, c, jmax, fuel, ChunkOf(f, IF c < jmax THEN c ELSE jmax, 1, f))

CancelBy(m, f, c, jmax, fuel, ch) ==
    CancelDivided(m, f, c, jmax, fuel, ch, NDivRange(m, ch.p, 1, Len(m), 0))

CancelDivided(m, f, c, jmax, fuel, ch, r) ==
    IF r.r = 0 THEN CancelFactor(NStrip(r.q), f, c - ch.j, jmax, fuel - 1)
    ELSE CancelFactor(m, f, c, ch.j \div 2, fuel)

(* The one-limb factors S of the bag d cancelled against the magnitude m. *)
RECURSIVE CancelOver(_, _, _)
RECURSIVE CancelKey(_, _, _, _)
RECURSIVE CancelRest(_, _, _, _)
CancelOver(m, d, S) ==
    IF S = {} THEN [m |-> m, d |-> d]
    ELSE CancelKey(m, d, S, CHOOSE x \in S : TRUE)

CancelKey(m, d, S, a) == CancelRest(d, S, a, CancelFactor(m, a[1], d[a], d[a], 4))

CancelRest(d, S, a, r) == CancelOver(r.m, [d EXCEPT ![a] = r.c], S \ {a})

RReduced(s, r) == [n |-> [s |-> s, m |-> r.m], d |-> BagPositive(r.d)]

(* The rational n over d, the one-limb factors of d cancelled against n. *)
RMake(n, d) ==
    IF n.s = 0 THEN [n |-> ZZero, d |-> EmptyBag]
    ELSE RReduced(n.s, CancelOver(n.m, d, {a \in DOMAIN d : Len(a) = 1}))

(* A bag of factors whose product is m > 0: the primes in S that divide   *)
(* m, as often as CancelFactor finds them, and what remains of m.         *)
RECURSIVE FactorsOver(_, _)
RECURSIVE FactorsFrom(_, _, _)
RECURSIVE FactorsRest(_, _, _, _)
FactorsOver(m, S) ==
    IF m = << 1 >> THEN EmptyBag
    ELSE IF S = {} THEN BagOf(m, 1)
    ELSE FactorsFrom(m, S, CHOOSE x \in S : TRUE)

FactorsFrom(m, S, p) ==
    FactorsRest(m, S, p, CancelFactor(m, p, 10 * Len(m), 10 * Len(m), 8))

FactorsRest(m, S, p, r) ==
    BagSum(BagOf(<< p >>, 10 * Len(m) - r.c), FactorsOver(r.m, S \ {p}))

Factors(m) == FactorsOver(m, {2, 3, 5})

RZero == [n |-> ZZero, d |-> EmptyBag]

RInt(k) == [n |-> ZFromInt(k), d |-> EmptyBag]

RNeg(x) == [n |-> ZNeg(x.n), d |-> x.d]

(* x + y over the common denominator l. *)
RAddOver(x, y, l) ==
    RMake(ZAdd(ZMulN(x.n, BagProd(BagDiff(l, x.d))),
               ZMulN(y.n, BagProd(BagDiff(l, y.d)))), l)

RAdd(x, y) ==
    IF x.n.s = 0 THEN y
    ELSE IF y.n.s = 0 THEN x
    ELSE RAddOver(x, y, BagLcm(x.d, y.d))

RSub(x, y) == RAdd(x, RNeg(y))

RMul(x, y) == RMake(ZMul(x.n, y.n), BagSum(x.d, y.d))

(* 1 / x for x # 0. *)
RInv(x) == [n |-> [s |-> x.n.s, m |-> BagProd(x.d)], d |-> Factors(x.n.m)]

RDiv(x, y) == RMul(x, RInv(y))

(* The rational p / q of two machine integers, q > 0. *)
RFrac(p, q) == RDiv(RInt(p), RInt(q))

(* x ** k from h = x ** (k \div 2). *)
RPowOf(x, k, h) == IF k % 2 = 0 THEN RMul(h, h) ELSE RMul(RMul(h, h), x)

(* x ** k for an integer k >= 0. *)
RECURSIVE RPow(_, _)
RPow(x, k) ==
    IF k = 0 THEN RInt(1)
    ELSE IF k = 1 THEN x
    ELSE RPowOf(x, k, RPow(x, k \div 2))

RSign(x) == x.n.s

RCmp(x, y) == RSign(RSub(x, y))

REq(x, y) == RCmp(x, y) = 0
RLt(x, y) == RCmp(x, y) < 0
RLe(x, y) == RCmp(x, y) <= 0
RGt(x, y) == RCmp(x, y) > 0
RGe(x, y) == RCmp(x, y) >= 0

RMaxOf(x, y) == IF RGe(x, y) THEN x ELSE y
RMinOf(x, y) == IF RLe(x, y) THEN x ELSE y

----------------------------------------------------------------------------
(* Python's None, and a value that may be None. *)

None == << >>
Some(v) == << v >>
Val(o) == o[1]

(* The exception messages of calculate_amortization, and Python's own     *)
(* error for a division by zero.                                          *)
ExactlyOneError == "Provide exactly one of (monthly_payment or loan_term)."
TooLowError == "Monthly payment too low to cover interest."
ZeroDivisionError == "ZeroDivisionError"

(* Program constants: months per year, and the years of the safety cap of *)
(* the payment-known loop (1000*12 months).                               *)
MonthsPerYear == 12
CapYears == 1000

----------------------------------------------------------------------------
(* Bounds of the inputs. *)

MaxTerm == 2
MaxLoanUnits == 2
MaxRateSteps == 2
MaxPayExp == 2

Terms == 1..MaxTerm
Amounts == {RInt(15000 * k) : k \in 0..MaxLoanUnits}
Rates == {RFrac(4 * k, 100) : k \in 0..MaxRateSteps}
Payments == {RInt(0)} \cup {RInt(2 * (50 ^ k)) : k \in 0..MaxPayExp}

----------------------------------------------------------------------------
(* calculate_amortization.  The arguments and locals carry the names of   *)
(* the source; a local not yet assigned is None.  pc is the place of the  *)
(* call: "call" (entered), "loop" (at the while test), "break" (the loop  *)
(* was left by break), "walk" (at the for of the interest re-walk),       *)
(* "return" and "raise".  first is what a caller that solves twice keeps  *)
(* of its first call.                                                     *)

VARIABLES loan_amount, annual_interest_rate, monthly_payment, loan_term,
          monthly_interest_rate, remaining_balance, months, total_months,
          total_interest_paid, m, interest, principal,
          pc, result, error, first

amArgs == << loan_amount, annual_interest_rate, loan_term >>
amLocals == << monthly_interest_rate, remaining_balance, months, total_months,
               total_interest_paid, m, interest, principal >>
amVars == << loan_amount, annual_interest_rate, monthly_payment, loan_term,
             monthly_interest_rate, remaining_balance, months, total_months,
             total_interest_paid, m, interest, principal,
             pc, result, error, first >>

(* The simulators: scenario holds the parameters update_plot2 passes to   *)
(* all three, run1, run2 and run3 the locals of the calls of              *)
(* buying_vs_renting, buying_vs_renting2 and buying_vs_renting3.          *)
VARIABLES scenario, run1, run2, run3

simVars == << scenario, run1, run2, run3 >>

(* The state of update_plot1's sweep over the loan terms: the list of     *)
(* terms and the payments collected so far.                               *)
VARIABLES terms, payments

plotVars == << terms, payments >>

vars == << amVars, simVars, plotVars >>

AmInit ==
    /\ loan_amount \in Amounts
    /\ annual_interest_rate \in Rates
    /\ monthly_payment \in {None} \cup {Some(p) : p \in Payments}
    /\ loan_term \in {None} \cup {Some(t) : t \in Terms}
    /\ monthly_interest_rate = None
    /\ remaining_balance = None
    /\ months = None
    /\ total_months = None
    /\ total_interest_paid = None
    /\ m = None
    /\ interest = None
    /\ principal = None
    /\ pc = "call"
    /\ result = None
    /\ error = None
    /\ first = None

(* raise: the call ends with the exception and returns nothing. *)
Raise(msg) ==
    /\ pc' = "raise"
    /\ error' = Some(msg)
    /\ result' = None

(* Lines 53-55: the start of the re-walk of the schedule. *)
StartWalk ==
    /\ remaining_balance' = Some(loan_amount)
    /\ total_interest_paid' = Some(RZero)
    /\ m' = Some(1)
    /\ pc' = "walk"

(* Line 26 and line 33: the two tests that choose the mode. *)
IsTermKnown == monthly_payment = None /\ loan_term # None

(* A variant of the second test that forgets to look at loan_term. *)
IsPaymentKnownIgnoringTerm == monthly_payment # None

IsPaymentKnown == monthly_payment # None /\ loan_term = None

(* A variant of the divisor with the sign of the exponent lost. *)
AnnuityDivisorPositiveExponent(r, n) ==
    RSub(RInt(1), RPow(RAdd(RInt(1), r), n))

(* Line 30: 1 - (1 + r) ** (-n), the divisor of the annuity formula. *)
AnnuityDivisor(r, n) == RSub(RInt(1), RInv(RPow(RAdd(RInt(1), r), n)))
(* A variant of the annuity payment that only covers the interest. *)
AnnuityPaymentInterestOnly(r, amount, q) == RMul(r, amount)

(* Line 30: the annuity payment, for a divisor q # 0. *)
AnnuityPayment(r, amount, q) == RDiv(RMul(r, amount), q)

(* A variant of the straight-line payment that divides by the years. *)
StraightLinePaymentPerYear(amount, n) == RDiv(amount, RInt(n \div MonthsPerYear))

(* Line 32: the straight-line payment of a loan without interest, n # 0. *)
StraightLinePayment(amount, n) == RDiv(amount, RInt(n))

(* A variant of the test that lets a principal of exactly zero pass. *)
PrincipalNegative(p) == RLt(p, RZero)

(* Line 41: the payment does not cover the interest. *)
PrincipalTooLow(p) == RLe(p, RZero)

(* Line 44: the safety cap of the loop. *)
CapExceeded(k) == k > CapYears * MonthsPerYear
(* A variant of the month count that counts one month too many. *)
LoopMonthsPlusOne == Some(Val(months) + 1)

(* A variant of the month count that is clamped to the cap. *)
LoopMonthsClamped ==
    IF Val(months) > CapYears * MonthsPerYear
    THEN Some(CapYears * MonthsPerYear) ELSE months

(* Line 46: the month count the loop hands on. *)
LoopMonths == months

(* Lines 26-32: the loan term is known, the payment is derived. *)
TermKnown(r) ==
    LET n == Val(loan_term) * MonthsPerYear
        q == AnnuityDivisor(r, n)
    IN  IF RGt(r, RZero)
        THEN IF RSign(q) = 0
             THEN /\ Raise(ZeroDivisionError)
                  /\ total_months' = Some(n)
                  /\ UNCHANGED << monthly_payment, remaining_balance,
                                  total_interest_paid, m >>
             ELSE /\ monthly_payment' = Some(AnnuityPayment(r, loan_amount, q))
                  /\ total_months' = Some(n)
                  /\ StartWalk
                  /\ UNCHANGED << result, error >>
        ELSE IF n = 0
             THEN /\ Raise(ZeroDivisionError)
                  /\ total_months' = Some(n)
                  /\ UNCHANGED << monthly_payment, remaining_balance,
                                  total_interest_paid, m >>
             ELSE /\ monthly_payment' = Some(StraightLinePayment(loan_amount, n))
                  /\ total_months' = Some(n)
                  /\ StartWalk
                  /\ UNCHANGED << result, error >>

(* Lines 23-36 and 47-48: the entry of the call and the choice of mode. *)
Entry ==
    /\ pc = "call"
    /\ LET r == RDiv(annual_interest_rate, RInt(MonthsPerYear))
       IN  /\ monthly_interest_rate' = Some(r)
           /\ IF IsTermKnown
              THEN /\ TermKnown(r)
                   /\ UNCHANGED months
              ELSE IF IsPaymentKnown
              THEN /\ remaining_balance' = Some(loan_amount)
                   /\ months' = Some(0)
                   /\ pc' = "loop"
                   /\ UNCHANGED << monthly_payment, total_months,
                                   total_interest_paid, m, result, error >>
              ELSE /\ Raise(ExactlyOneError)
                   /\ UNCHANGED << monthly_payment, remaining_balance, months,
                                   total_months, total_interest_paid, m >>
    /\ UNCHANGED << amArgs, interest, principal, first >>
    /\ UNCHANGED << simVars, plotVars >>
(* A variant of the loop body that adds the month's interest to the       *)
(* balance and forgets to take the payment off.                           *)
LoopIterBalanceAccrues ==
    /\ pc = "loop"
    /\ RGt(Val(remaining_balance), RZero)
    /\ months' = Some(Val(months) + 1)
    /\ interest' = Some(RMul(Val(remaining_balance), Val(monthly_interest_rate)))
    /\ principal' = Some(RSub(Val(monthly_payment), Val(interest')))
    /\ IF PrincipalTooLow(Val(principal'))
       THEN /\ Raise(TooLowError)
            /\ UNCHANGED remaining_balance
       ELSE /\ remaining_balance' = Some(RAdd(Val(remaining_balance), Val(interest')))
            /\ pc' = IF CapExceeded(Val(months) + 1) THEN "break" ELSE "loop"
            /\ UNCHANGED << result, error >>
    /\ UNCHANGED << amArgs, monthly_payment, monthly_interest_rate, total_months,
                    total_interest_paid, m, first >>
    /\ UNCHANGED << simVars, plotVars >>

(* Lines 37-45: one iteration of the balance-depletion loop. *)
LoopIter ==
    /\ pc = "loop"
    /\ RGt(Val(remaining_balance), RZero)
    /\ LET i == RMul(Val(remaining_balance), Val(monthly_interest_rate))
           p == RSub(Val(monthly_payment), i)
       IN  /\ months' = Some(Val(months) + 1)
           /\ interest' = Some(i)
           /\ principal' = Some(p)
           /\ IF PrincipalTooLow(p)
              THEN /\ Raise(TooLowError)
                   /\ UNCHANGED remaining_balance
              ELSE /\ remaining_balance' = Some(RSub(Val(remaining_balance), p))
                   /\ pc' = IF CapExceeded(Val(months) + 1)
                            THEN "break" ELSE "loop"
                   /\ UNCHANGED << result, error >>
    /\ UNCHANGED << amArgs, monthly_payment, monthly_interest_rate, total_months,
                    total_interest_paid, m, first >>
    /\ UNCHANGED << simVars, plotVars >>

(* Lines 37 and 46-55: the loop is left, by its test or by break. *)
LoopExit ==
    /\ \/ pc = "break"
       \/ pc = "loop" /\ RLe(Val(remaining_balance), RZero)
    /\ total_months' = LoopMonths
    /\ StartWalk
    /\ UNCHANGED << amArgs, monthly_payment, monthly_interest_rate, months,
                    interest, principal, result, error, first >>
    /\ UNCHANGED << simVars, plotVars >>
(* A variant of the re-walk that does not clamp the balance at zero. *)
WalkIterUnclamped ==
    /\ pc = "walk"
    /\ Val(m) <= Val(total_months)
    /\ interest' = Some(RMul(Val(remaining_balance), Val(monthly_interest_rate)))
    /\ principal' = Some(RSub(Val(monthly_payment), Val(interest')))
    /\ total_interest_paid' = Some(RAdd(Val(total_interest_paid), Val(interest')))
    /\ remaining_balance' = Some(RSub(Val(remaining_balance), Val(principal')))
    /\ m' = Some(Val(m) + 1)
    /\ UNCHANGED << amArgs, monthly_payment, monthly_interest_rate, months,
                    total_months, pc, result, error, first >>
    /\ UNCHANGED << simVars, plotVars >>

(* Lines 56-62: one month of the re-walk that accumulates the interest. *)
WalkIter ==
    /\ pc = "walk"
    /\ Val(m) <= Val(total_months)
    /\ LET i == RMul(Val(remaining_balance), Val(monthly_interest_rate))
           p == RSub(Val(monthly_payment), i)
           b == RSub(Val(remaining_balance), p)
       IN  /\ interest' = Some(i)
           /\ principal' = Some(p)
           /\ total_interest_paid' = Some(RAdd(Val(total_interest_paid), i))
           /\ remaining_balance' = Some(IF RLt(b, RZero) THEN RZero ELSE b)
    /\ m' = Some(Val(m) + 1)
    /\ UNCHANGED << amArgs, monthly_payment, monthly_interest_rate, months,
                    total_months, pc, result, error, first >>
    /\ UNCHANGED << simVars, plotVars >>
(* A variant of the return that guards the division: with loan_amount 0   *)
(* it reports a repayment rate of 0.                                      *)
FinishGuarded ==
    /\ pc = "walk"
    /\ Val(m) > Val(total_months)
    /\ result' = Some(
           [monthly_payment |-> Val(monthly_payment),
            total_interest_paid |-> Val(total_interest_paid),
            total_months |-> Val(total_months),
            initial_tilgung_rate |->
                IF RSign(loan_amount) = 0 THEN RZero
                ELSE RDiv(RMul(RSub(Val(monthly_payment),
                                    RMul(loan_amount, Val(monthly_interest_rate))),
                               RInt(MonthsPerYear)),
                          loan_amount)])
    /\ pc' = "return"
    /\ UNCHANGED error
    /\ UNCHANGED << amArgs, monthly_payment, amLocals, first >>
    /\ UNCHANGED << simVars, plotVars >>

(* Lines 64-72: the repayment rate and the returned result. *)
Finish ==
    /\ pc = "walk"
    /\ Val(m) > Val(total_months)
    /\ LET principal_first_month ==
               RSub(Val(monthly_payment),
                    RMul(loan_amount, Val(monthly_interest_rate)))
       IN  IF RSign(loan_amount) = 0
           THEN Raise(ZeroDivisionError)
           ELSE /\ result' = Some(
                      [monthly_payment |-> Val(monthly_payment),
                       total_interest_paid |-> Val(total_interest_paid),
                       total_months |-> Val(total_months),
                       initial_tilgung_rate |->
                           RDiv(RMul(principal_first_month, RInt(MonthsPerYear)),
                                loan_amount)])
                /\ pc' = "return"
                /\ UNCHANGED error
    /\ UNCHANGED << amArgs, monthly_payment, amLocals, first >>
    /\ UNCHANGED << simVars, plotVars >>

(* The caller of the round trip: after a term-known solve it solves again *)
(* with the payment just derived and no term.                             *)
Resolve ==
    /\ pc = "return"
    /\ loan_term # None
    /\ first = None
    /\ first' = Some([loan_term |-> Val(loan_term), result |-> Val(result)])
    /\ monthly_payment' = Some(Val(result).monthly_payment)
    /\ loan_term' = None
    /\ monthly_interest_rate' = None
    /\ remaining_balance' = None
    /\ months' = None
    /\ total_months' = None
    /\ total_interest_paid' = None
    /\ m' = None
    /\ interest' = None
    /\ principal' = None
    /\ pc' = "call"
    /\ result' = None
    /\ error' = None
    /\ UNCHANGED << loan_amount, annual_interest_rate >>
    /\ UNCHANGED << simVars, plotVars >>

AmNext ==
    \/ Entry
    \/ LoopIter
    \/ LoopExit
    \/ WalkIter
    \/ Finish
    \/ Resolve

(* No call of calculate_amortization is under way. *)
AmIdle ==
    /\ loan_amount = None
    /\ annual_interest_rate = None
    /\ monthly_payment = None
    /\ loan_term = None
    /\ monthly_interest_rate = None
    /\ remaining_balance = None
    /\ months = None
    /\ total_months = None
    /\ total_interest_paid = None
    /\ m = None
    /\ interest = None
    /\ principal = None
    /\ pc = "idle"
    /\ result = None
    /\ error = None
    /\ first = None

----------------------------------------------------------------------------
(* numpy_financial, as the simulators call it (when = 'end', fv = 0).     *)

(* npf.pmt(rate, nper, pv), temp = (1 + rate) ** nper. *)
NpfPmtFact(rate, nper, temp) ==
    IF RSign(rate) = 0 THEN RInt(nper) ELSE RDiv(RSub(temp, RInt(1)), rate)
(* A variant of the payment for payments due at the beginning of each     *)
(* period (when = 'begin').                                               *)
NpfPmtOfBegin(rate, nper, pv, temp) ==
    RNeg(RDiv(RMul(pv, temp),
              RMul(NpfPmtFact(rate, nper, temp), RAdd(RInt(1), rate))))

NpfPmtOf(rate, nper, pv, temp) ==
    RNeg(RDiv(RMul(pv, temp), NpfPmtFact(rate, nper, temp)))

NpfPmt(rate, nper, pv) == NpfPmtOf(rate, nper, pv, RPow(RAdd(RInt(1), rate), nper))
(* A variant of the future value for payments due at the beginning of     *)
(* each period (when = 'begin').                                          *)
NpfFvOfBegin(rate, pmt, pv, temp) ==
    RSub(RNeg(RMul(pv, temp)),
         RMul(RMul(RDiv(pmt, rate), RAdd(RInt(1), rate)), RSub(temp, RInt(1))))

(* npf.fv(rate, nper, pmt, pv), temp = (1 + rate) ** nper. *)
NpfFvOf(rate, pmt, pv, temp) ==
    RSub(RNeg(RMul(pv, temp)), RMul(RDiv(pmt, rate), RSub(temp, RInt(1))))

NpfFv(rate, nper, pmt, pv) ==
    IF RSign(rate) = 0
    THEN RNeg(RAdd(pv, RMul(pmt, RInt(nper))))
    ELSE NpfFvOf(rate, pmt, pv, RPow(RAdd(RInt(1), rate), nper))

----------------------------------------------------------------------------
(* Bounds and inputs of the simulators. *)

MaxDownUnits == 1
MaxLoanRateSteps == 2
MaxReturnSteps == 2
MaxSimTerm == 2

Scenarios ==
    { [purchase_price |-> RInt(100000),
       down_payment |-> RInt(20000 * dp),
       refurbish |-> RInt(20000),
       nebenkost_rate |-> RFrac(1, 10),
       maintenance_rate |-> RFrac(15, 1000),
       property_taxes |-> RInt(1200),
       initial_rent |-> RInt(5000),
       loan_interest_rate |-> RFrac(25 * lr, 1000),
       property_appreciation_rate |-> RFrac(1, 100),
       rent_inflation_rate |-> RFrac(2, 1000),
       investment_return_rate |-> RFrac(2 * ir, 100),
       loan_term |-> t] :
      dp \in 0..MaxDownUnits, lr \in 0..MaxLoanRateSteps,
      ir \in 0..MaxReturnSteps, t \in 1..MaxSimTerm }

NotCalled == [pc |-> "idle"]

SimIdle ==
    /\ scenario = None
    /\ run1 = NotCalled
    /\ run2 = NotCalled
    /\ run3 = NotCalled

SimInit ==
    /\ scenario \in Scenarios
    /\ run1 = NotCalled
    /\ run2 = NotCalled
    /\ run3 = NotCalled

(* list(range(months)) *)
MonthListFromOne(n) == [i \in 1..n |-> i]

MonthList(n) == [i \in 1..n |-> i - 1]

(* The loop variable of "for month in range(months)": the index the next  *)
(* iteration gets, after the index last is bound to (None before the      *)
(* first).                                                                *)
NextMonth(last) == IF last = None THEN 0 ELSE Val(last) + 1

----------------------------------------------------------------------------
(* buying_vs_renting: model 1, all capital in one pool.                   *)

(* Lines 93-98: the month's cost of buying minus the month's rent. *)
MonthlyMaintenance1(s) == RDiv(RMul(s.purchase_price, s.maintenance_rate), RInt(12))

MonthlyTaxes1(s) == RDiv(s.property_taxes, RInt(12))

MonthlyBuyingCost1(s, monthly_payment_) ==
    RAdd(RAdd(monthly_payment_, MonthlyMaintenance1(s)), MonthlyTaxes1(s))

MonthlyRent1(s, month) ==
    RMul(s.initial_rent,
         RPow(RAdd(RInt(1), RDiv(s.rent_inflation_rate, RInt(12))), month))

MonthlySavings1(s, monthly_payment_, month) ==
    RSub(MonthlyBuyingCost1(s, monthly_payment_), MonthlyRent1(s, month))

(* Lines 100-102: the contribution, then the return on the new total. *)
Grow1(s, capital) ==
    RAdd(capital, RMul(capital, RDiv(s.investment_return_rate, RInt(12))))
(* A variant of the allocation that applies the return to the old total   *)
(* and adds the contribution afterwards.                                  *)
Allocate1ReturnFirst(s, invested_capital, monthly_savings_) ==
    RAdd(Grow1(s, invested_capital), monthly_savings_)

Allocate1(s, invested_capital, monthly_savings_) ==
    Grow1(s, RAdd(invested_capital, monthly_savings_))

(* Lines 92 and 106-108: the buyer's net worth of the month. *)
MonthlyPropertyValue1(s, month) ==
    RMul(s.purchase_price,
         RPow(RAdd(RInt(1), RDiv(s.property_appreciation_rate, RInt(12))), month))
(* A variant of the balance that counts the month's payment as not yet    *)
(* made.                                                                  *)
OutstandingBalance1BeforePayment(f, month) ==
    NpfFv(f.monthly_loan_interest_rate, month, f.monthly_payment,
          RNeg(f.loan_amount))

OutstandingBalance1(f, month) ==
    NpfFv(f.monthly_loan_interest_rate, month + 1, f.monthly_payment,
          RNeg(f.loan_amount))

BuyNetWorth1(s, f, month) ==
    RSub(RSub(MonthlyPropertyValue1(s, month), OutstandingBalance1(f, month)),
         f.inital_payment)

(* Lines 75-89: the locals when the loop is entered. *)
Frame1(s, loan_amount_, monthly_loan_interest_rate_) ==
    [pc |-> "loop",
     inital_payment |-> RAdd(RMul(s.purchase_price, s.nebenkost_rate), s.refurbish),
     loan_amount |-> loan_amount_,
     monthly_loan_interest_rate |-> monthly_loan_interest_rate_,
     months |-> s.loan_term * 12,
     monthly_payment |->
         NpfPmt(monthly_loan_interest_rate_, s.loan_term * 12, RNeg(loan_amount_)),
     buy_net_worth |-> << >>,
     rent_net_worth |-> << >>,
     invested_capital |-> s.down_payment,
     last_monthly_savings |-> None,
     month |-> None,
     monthly_savings |-> None,
     returned |-> None]

(* Lines 75-89: the call and what precedes the loop. *)
Call1 ==
    /\ run1.pc = "idle"
    /\ run1' = Frame1(scenario, RSub(scenario.purchase_price, scenario.down_payment),
                      RDiv(scenario.loan_interest_rate, RInt(12)))
    /\ UNCHANGED << scenario, run2, run3, amVars, plotVars >>

(* Lines 92-109: the body of the loop for one month, on the locals f. *)
Month1Invested(s, f, month, monthly_savings_, invested_capital_) ==
    [f EXCEPT
       !.month = Some(month),
       !.monthly_savings = Some(monthly_savings_),
       !.invested_capital = invested_capital_,
       !.rent_net_worth = Append(@, invested_capital_),
       !.buy_net_worth = Append(@, BuyNetWorth1(s, f, month))]

Month1Saved(s, f, month, monthly_savings_) ==
    Month1Invested(s, f, month, monthly_savings_,
                   Allocate1(s, f.invested_capital, monthly_savings_))

Month1(s, f, month) ==
    Month1Saved(s, f, month, MonthlySavings1(s, f.monthly_payment, month))

(* Lines 91-109: one iteration of the loop. *)
Iter1 ==
    /\ run1.pc = "loop"
    /\ NextMonth(run1.month) < run1.months
    /\ run1' = Month1(scenario, run1, NextMonth(run1.month))
    /\ UNCHANGED << scenario, run2, run3, amVars, plotVars >>

(* Lines 110-111: the loop is over; the four values returned. *)
Return1 ==
    /\ run1.pc = "loop"
    /\ NextMonth(run1.month) >= run1.months
    /\ run1' = [run1 EXCEPT
                  !.pc = "return",
                  !.last_monthly_savings = run1.monthly_savings,
                  !.returned = Some(<< run1.buy_net_worth, run1.rent_net_worth,
                                       MonthList(run1.months),
                                       run1.monthly_savings >>)]
    /\ UNCHANGED << scenario, run2, run3, amVars, plotVars >>

----------------------------------------------------------------------------
(* buying_vs_renting2: model 2, 1/4 of the down payment in the ETF pool   *)
(* and 3/4 in the savings pool.                                           *)

(* Lines 133-138: the month's cost of buying minus the month's rent. *)
MonthlyMaintenance2(s) == RDiv(RMul(s.purchase_price, s.maintenance_rate), RInt(12))

MonthlyTaxes2(s) == RDiv(s.property_taxes, RInt(12))

MonthlyBuyingCost2(s, monthly_payment_) ==
    RAdd(RAdd(monthly_payment_, MonthlyMaintenance2(s)), MonthlyTaxes2(s))

MonthlyRent2(s, month) ==
    RMul(s.initial_rent,
         RPow(RAdd(RInt(1), RDiv(s.rent_inflation_rate, RInt(12))), month))

MonthlySavings2(s, monthly_payment_, month) ==
    RSub(MonthlyBuyingCost2(s, monthly_payment_), MonthlyRent2(s, month))

(* Line 142: the yearly return of the savings pool. *)
BalancedSpread(s) ==
    RMaxOf(RSub(s.loan_interest_rate, RFrac(2, 100)), RInt(0))

(* Lines 141 and 143: the ETF pool with its month's return. *)
GrowETF2(s, capital) ==
    RAdd(capital, RMul(capital, RDiv(s.investment_return_rate, RInt(12))))

(* Lines 142 and 144: the savings pool with its month's return. *)
GrowSavings2(s, capital) ==
    RAdd(capital, RMul(capital, RDiv(BalancedSpread(s), RInt(12))))

(* A variant of the allocation that splits the month's savings between    *)
(* the pools the way the down payment is split.                           *)
Allocate2SplitSavings(s, invested_capital_ETF, invested_capital_savings, monthly_savings_) ==
    [ETF |-> GrowETF2(s, RAdd(invested_capital_ETF, RDiv(monthly_savings_, RInt(4)))),
     savings |-> GrowSavings2(s, RAdd(invested_capital_savings,
                                      RDiv(RMul(monthly_savings_, RInt(3)), RInt(4))))]

(* Lines 140-144: the contribution to the ETF pool, then each pool's      *)
(* return.                                                                *)
Allocate2(s, invested_capital_ETF, invested_capital_savings, monthly_savings_) ==
    [ETF |-> GrowETF2(s, RAdd(invested_capital_ETF, monthly_savings_)),
     savings |-> GrowSavings2(s, invested_capital_savings)]

(* Lines 132 and 149-151: the buyer's net worth of the month. *)
MonthlyPropertyValue2(s, month) ==
    RMul(s.purchase_price,
         RPow(RAdd(RInt(1), RDiv(s.property_appreciation_rate, RInt(12))), month))

OutstandingBalance2(f, month) ==
    NpfFv(f.monthly_loan_interest_rate, month + 1, f.monthly_payment,
          RNeg(f.loan_amount))

BuyNetWorth2(s, f, month) ==
    RSub(RSub(MonthlyPropertyValue2(s, month), OutstandingBalance2(f, month)),
         f.inital_payment)

(* Lines 114-129: the locals when the loop is entered. *)
Frame2(s, loan_amount_, monthly_loan_interest_rate_, invested_capital_total_) ==
    [pc |-> "loop",
     inital_payment |-> RAdd(RMul(s.purchase_price, s.nebenkost_rate), s.refurbish),
     loan_amount |-> loan_amount_,
     monthly_loan_interest_rate |-> monthly_loan_interest_rate_,
     months |-> s.loan_term * 12,
     monthly_payment |->
         NpfPmt(monthly_loan_interest_rate_, s.loan_term * 12, RNeg(loan_amount_)),
     buy_net_worth |-> << >>,
     rent_net_worth |-> << >>,
     invested_capital_total |-> invested_capital_total_,
     invested_capital_ETF |->
         RDiv(RMul(invested_capital_total_, RInt(1)), RInt(4)),
     invested_capital_savings |->
         RDiv(RMul(invested_capital_total_, RInt(3)), RInt(4)),
     month |-> None,
     monthly_savings |-> None,
     returned |-> None]
(* A variant of the call whose list of net worths is one object shared    *)
(* with the call of buying_vs_renting under way.                          *)
Call2SharingList ==
    /\ run2.pc = "idle"
    /\ run2' = [Frame2(scenario, RSub(scenario.purchase_price, scenario.down_payment),
                       RDiv(scenario.loan_interest_rate, RInt(12)),
                       scenario.down_payment)
                EXCEPT !.buy_net_worth =
                    IF run1.pc = "loop" THEN run1.buy_net_worth ELSE << >>]
    /\ UNCHANGED << scenario, run1, run3, amVars, plotVars >>

(* Lines 114-129: the call and what precedes the loop. *)
Call2 ==
    /\ run2.pc = "idle"
    /\ run2' = Frame2(scenario, RSub(scenario.purchase_price, scenario.down_payment),
                      RDiv(scenario.loan_interest_rate, RInt(12)),
                      scenario.down_payment)
    /\ UNCHANGED << scenario, run1, run3, amVars, plotVars >>

(* Lines 132-152: the body of the loop for one month, on the locals f. *)
Month2Totalled(s, f, month, monthly_savings_, pools, invested_capital_total_) ==
    [f EXCEPT
       !.month = Some(month),
       !.monthly_savings = Some(monthly_savings_),
       !.invested_capital_ETF = pools.ETF,
       !.invested_capital_savings = pools.savings,
       !.invested_capital_total = invested_capital_total_,
       !.rent_net_worth = Append(@, invested_capital_total_),
       !.buy_net_worth = Append(@, BuyNetWorth2(s, f, month))]

Month2Invested(s, f, month, monthly_savings_, pools) ==
    Month2Totalled(s, f, month, monthly_savings_, pools,
                   RAdd(pools.ETF, pools.savings))

Month2Saved(s, f, month, monthly_savings_) ==
    Month2Invested(s, f, month, monthly_savings_,
                   Allocate2(s, f.invested_capital_ETF, f.invested_capital_savings,
                             monthly_savings_))

Month2(s, f, month) ==
    Month2Saved(s, f, month, MonthlySavings2(s, f.monthly_payment, month))

(* Lines 131-152: one iteration of the loop. *)
Iter2 ==
    /\ run2.pc = "loop"
    /\ NextMonth(run2.month) < run2.months
    /\ run2' = Month2(scenario, run2, NextMonth(run2.month))
    /\ UNCHANGED << scenario, run1, run3, amVars, plotVars >>

(* Line 154. *)
Return2 ==
    /\ run2.pc = "loop"
    /\ NextMonth(run2.month) >= run2.months
    /\ run2' = [run2 EXCEPT
                  !.pc = "return",
                  !.returned = Some(<< run2.buy_net_worth, run2.rent_net_worth,
                                       MonthList(run2.months) >>)]
    /\ UNCHANGED << scenario, run1, run3, amVars, plotVars >>

----------------------------------------------------------------------------
(* buying_vs_renting3: model 3, 1/8 of the down payment in the ETF pool   *)
(* and 7/8 in the savings pool, whose return is capped at 1%.             *)

(* Lines 176-181: the month's cost of buying minus the month's rent. *)
MonthlyMaintenance3(s) == RDiv(RMul(s.purchase_price, s.maintenance_rate), RInt(12))

MonthlyTaxes3(s) == RDiv(s.property_taxes, RInt(12))

MonthlyBuyingCost3(s, monthly_payment_) ==
    RAdd(RAdd(monthly_payment_, MonthlyMaintenance3(s)), MonthlyTaxes3(s))

MonthlyRent3(s, month) ==
    RMul(s.initial_rent,
         RPow(RAdd(RInt(1), RDiv(s.rent_inflation_rate, RInt(12))), month))

(* A variant of the month's savings that leaves the taxes out. *)
MonthlySavings3NoTaxes(s, monthly_payment_, month) ==
    RSub(RAdd(monthly_payment_, MonthlyMaintenance3(s)), MonthlyRent3(s, month))

MonthlySavings3(s, monthly_payment_, month) ==
    RSub(MonthlyBuyingCost3(s, monthly_payment_), MonthlyRent3(s, month))

(* A variant of the spread without the cap. *)
ConservativeSpreadUncapped(s) ==
    RMaxOf(RSub(s.loan_interest_rate, RFrac(2, 100)), RInt(0))

(* Line 185: the yearly return of the savings pool. *)
ConservativeSpread(s) ==
    RMaxOf(RMinOf(RSub(s.loan_interest_rate, RFrac(2, 100)), RFrac(1, 100)),
           RInt(0))

(* Lines 184 and 186: the ETF pool with its month's return. *)
GrowETF3(s, capital) ==
    RAdd(capital, RMul(capital, RDiv(s.investment_return_rate, RInt(12))))

(* Lines 185 and 187: the savings pool with its month's return. *)
GrowSavings3(s, capital) ==
    RAdd(capital, RMul(capital, RDiv(ConservativeSpread(s), RInt(12))))

(* Lines 183-187: the contribution to the ETF pool, then each pool's      *)
(* return.                                                                *)
Allocate3(s, invested_capital_ETF, invested_capital_savings, monthly_savings_) ==
    [ETF |-> GrowETF3(s, RAdd(invested_capital_ETF, monthly_savings_)),
     savings |-> GrowSavings3(s, invested_capital_savings)]

(* Lines 175 and 192-194: the buyer's net worth of the month. *)
MonthlyPropertyValue3(s, month) ==
    RMul(s.purchase_price,
         RPow(RAdd(RInt(1), RDiv(s.property_appreciation_rate, RInt(12))), month))

OutstandingBalance3(f, month) ==
    NpfFv(f.monthly_loan_interest_rate, month + 1, f.monthly_payment,
          RNeg(f.loan_amount))

BuyNetWorth3(s, f, month) ==
    RSub(RSub(MonthlyPropertyValue3(s, month), OutstandingBalance3(f, month)),
         f.inital_payment)

(* Lines 157-172: the locals when the loop is entered. *)
Frame3(s, loan_amount_, monthly_loan_interest_rate_, invested_capital_total_) ==
    [pc |-> "loop",
     inital_payment |-> RAdd(RMul(s.purchase_price, s.nebenkost_rate), s.refurbish),
     loan_amount |-> loan_amount_,
     monthly_loan_interest_rate |-> monthly_loan_interest_rate_,
     months |-> s.loan_term * 12,
     monthly_payment |->
         NpfPmt(monthly_loan_interest_rate_, s.loan_term * 12, RNeg(loan_amount_)),
     buy_net_worth |-> << >>,
     rent_net_worth |-> << >>,
     invested_capital_total |-> invested_capital_total_,
     invested_capital_ETF |->
         RDiv(RMul(invested_capital_total_, RInt(1)), RInt(8)),
     invested_capital_savings |->
         RDiv(RMul(invested_capital_total_, RInt(7)), RInt(8)),
     month |-> None,
     monthly_savings |-> None,
     returned |-> None]

(* Lines 157-172: the call and what precedes the loop. *)
Call3 ==
    /\ run3.pc = "idle"
    /\ run3' = Frame3(scenario, RSub(scenario.purchase_price, scenario.down_payment),
                      RDiv(scenario.loan_interest_rate, RInt(12)),
                      scenario.down_payment)
    /\ UNCHANGED << scenario, run1, run2, amVars, plotVars >>

(* Lines 175-195: the body of the loop for one month, on the locals f. *)
Month3Totalled(s, f, month, monthly_savings_, pools, invested_capital_total_) ==
    [f EXCEPT
       !.month = Some(month),
       !.monthly_savings = Some(monthly_savings_),
       !.invested_capital_ETF = pools.ETF,
       !.invested_capital_savings = pools.savings,
       !.invested_capital_total = invested_capital_total_,
       !.rent_net_worth = Append(@, invested_capital_total_),
       !.buy_net_worth = Append(@, BuyNetWorth3(s, f, month))]

Month3Invested(s, f, month, monthly_savings_, pools) ==
    Month3Totalled(s, f, month, monthly_savings_, pools,
                   RAdd(pools.ETF, pools.savings))

Month3Saved(s, f, month, monthly_savings_) ==
    Month3Invested(s, f, month, monthly_savings_,
                   Allocate3(s, f.invested_capital_ETF, f.invested_capital_savings,
                             monthly_savings_))

Month3(s, f, month) ==
    Month3Saved(s, f, month, MonthlySavings3(s, f.monthly_payment, month))

(* Lines 174-195: one iteration of the loop. *)
Iter3 ==
    /\ run3.pc = "loop"
    /\ NextMonth(run3.month) < run3.months
    /\ run3' = Month3(scenario, run3, NextMonth(run3.month))
    /\ UNCHANGED << scenario, run1, run2, amVars, plotVars >>

(* Line 197. *)
Return3 ==
    /\ run3.pc = "loop"
    /\ NextMonth(run3.month) >= run3.months
    /\ run3' = [run3 EXCEPT
                  !.pc = "return",
                  !.returned = Some(<< run3.buy_net_worth, run3.rent_net_worth,
                                       MonthList(run3.months) >>)]
    /\ UNCHANGED << scenario, run1, run2, amVars, plotVars >>

(* update_plot2 calls the three simulators one after the other (lines    *)
(* 467, 482 and 498).                                                     *)
SimNext ==
    \/ Call1
    \/ Iter1
    \/ Return1
    \/ run1.pc = "return" /\ Call2
    \/ Iter2
    \/ Return2
    \/ run2.pc = "return" /\ Call3
    \/ Iter3
    \/ Return3

----------------------------------------------------------------------------
(* Spec: calls of calculate_amortization.  SpecSim: update_plot2's three  *)
(* simulator calls on one scenario.                                       *)

(* update_plot1's sweep, with the terms 1..MaxSweepTerm in place of the   *)
(* terms 10..40.                                                          *)
MaxSweepTerm == 6

(* Line 408: terms = list(range(10, 41)). *)
SweepTerms == [k \in 1..MaxSweepTerm |-> k]

(* No sweep is under way. *)
PlotIdle ==
    /\ terms = << >>
    /\ payments = << >>

(* Lines 378 and 408-415: the sweep begins with an empty list of payments *)
(* and the call for the first term.                                       *)
SweepInit ==
    /\ terms = SweepTerms
    /\ payments = << >>
    /\ AmInit
    /\ IsTermKnown
    /\ Val(loan_term) = terms[1]

(* Lines 410-416: the payment of the call that returned is appended and   *)
(* the call for the next term begins, or the loop ends.                   *)
SweepAppend ==
    /\ pc = "return"
    /\ result # None
    /\ Len(payments) < Len(terms)
    /\ payments' = Append(payments, Val(result).monthly_payment)
    /\ IF Len(payments) + 1 < Len(terms)
       THEN /\ loan_term' = Some(terms[Len(payments) + 2])
            /\ monthly_payment' = None
            /\ monthly_interest_rate' = None
            /\ remaining_balance' = None
            /\ months' = None
            /\ total_months' = None
            /\ total_interest_paid' = None
            /\ m' = None
            /\ interest' = None
            /\ principal' = None
            /\ pc' = "call"
            /\ result' = None
       ELSE /\ pc' = "done"
            /\ UNCHANGED << loan_term, monthly_payment, amLocals, result >>
    /\ UNCHANGED << loan_amount, annual_interest_rate, error, first, terms >>
    /\ UNCHANGED simVars

Init == AmInit /\ SimIdle /\ PlotIdle

Next == AmNext

Spec == Init /\ [][Next]_vars

InitSim == AmIdle /\ SimInit /\ PlotIdle

NextSim == SimNext

SpecSim == InitSim /\ [][NextSim]_vars

InitSweep == SweepInit /\ SimIdle

NextSweep ==
    \/ Entry
    \/ WalkIter
    \/ Finish
    \/ SweepAppend

SpecSweep == InitSweep /\ [][NextSweep]_vars

(* The three simulator calls of one scenario as three concurrent calls,   *)
(* each at its own pace.                                                  *)
InitReentrant ==
    /\ InitSim
    /\ scenario.loan_term = 1
    /\ scenario.down_payment = RInt(20000 * MaxDownUnits)
    /\ scenario.loan_interest_rate = RFrac(25 * MaxLoanRateSteps, 1000)
    /\ scenario.investment_return_rate = RFrac(2 * MaxReturnSteps, 100)

NextReentrant ==
    \/ Call1
    \/ Iter1
    \/ Return1
    \/ Call2
    \/ Iter2
    \/ Return2
    \/ Call3
    \/ Iter3
    \/ Return3

SpecReentrant == InitReentrant /\ [][NextReentrant]_vars

----------------------------------------------------------------------------
(* Properties of calculate_amortization, checked under Spec. *)

BothOrNeither == (monthly_payment = None) = (loan_term = None)

(* The interest of the first month: loan_amount * (annual_rate / 12). *)
FirstInterest ==
    RMul(loan_amount, RDiv(annual_interest_rate, RInt(MonthsPerYear)))

(* C1: a call given both or neither of monthly_payment and loan_term      *)
(* raises the "exactly one" ValueError at once and returns no result; a   *)
(* call given exactly one of them never raises that error.                *)
C1_ExactlyOneOfPaymentAndTerm ==
    [][ /\ (pc = "call" /\ BothOrNeither)
            => (pc' = "raise" /\ error' = Some(ExactlyOneError) /\ result' = None)
        /\ (pc = "call" /\ ~BothOrNeither) => error' # Some(ExactlyOneError)
        /\ (pc # "call") => error' # Some(ExactlyOneError) ]_vars

C1_Witness ==
    /\ pc = "raise"
    /\ error = Some(ExactlyOneError)
    /\ monthly_payment # None
    /\ loan_term # None

(* C2: in payment-known mode with loan_amount > 0 and rate >= 0, a        *)
(* payment of at most loan_amount * (rate / 12) makes the call raise the  *)
(* "payment too low" ValueError in the first iteration of the loop: the   *)
(* call gets no further than that iteration and returns no result.        *)
C2_Case ==
    /\ loan_term = None
    /\ monthly_payment # None
    /\ RGt(loan_amount, RZero)
    /\ RGe(annual_interest_rate, RZero)
    /\ RLe(Val(monthly_payment), FirstInterest)

C2_PaymentTooLowRaises ==
    C2_Case =>
        \/ pc = "call"
        \/ /\ pc = "loop"
           /\ Val(months) = 0
           /\ REq(Val(remaining_balance), loan_amount)
        \/ pc = "raise" /\ error = Some(TooLowError) /\ result = None

C2_Witness ==
    /\ C2_Case
    /\ pc = "raise"
    /\ error = Some(TooLowError)
    /\ RGt(annual_interest_rate, RZero)
    /\ REq(Val(monthly_payment), FirstInterest)

C4_Case ==
    /\ loan_term # None
    /\ RSign(annual_interest_rate) = 0
    /\ RGt(loan_amount, RZero)

C4_ZeroRateStraightLine ==
    /\ (C4_Case /\ pc = "raise") => error = Some(ExactlyOneError)
    /\ (C4_Case /\ pc = "return") =>
           /\ REq(RMul(Val(result).monthly_payment,
                       RInt(Val(loan_term) * MonthsPerYear)), loan_amount)
           /\ Val(result).total_months = Val(loan_term) * MonthsPerYear
           /\ RSign(Val(result).total_interest_paid) = 0

C4_Witness ==
    /\ C4_Case
    /\ pc = "return"
    /\ Val(loan_term) = 2

(* C5: the month count a payment-known call returns as total_months never *)
(* exceeds the cap of 12,000 months.                                      *)
C5_TotalMonthsWithinCap ==
    (pc = "return" /\ loan_term = None) =>
        Val(result).total_months <= CapYears * MonthsPerYear

(* C6: when the payment-known loop has run past the safety cap the call   *)
(* does not raise; it returns the month count the loop had reached as     *)
(* total_months, the re-walk covers exactly that many months, and (the    *)
(* balance never having reached zero) the interest it accumulated is what *)
(* those payments did not repay: loan_amount - balance =                  *)
(* total_months * payment - total_interest_paid.                          *)
C6_Case ==
    /\ loan_term = None
    /\ months # None
    /\ Val(months) > CapYears * MonthsPerYear

C6_CapReturnsMonthCount ==
    (C6_Case /\ pc \in {"return", "raise"}) =>
        /\ pc = "return"
        /\ Val(result).total_months = Val(months)
        /\ Val(m) = Val(months) + 1
        /\ RGt(Val(remaining_balance), RZero) =>
               REq(RSub(loan_amount, Val(remaining_balance)),
                   RSub(RMul(RInt(Val(months)), Val(result).monthly_payment),
                        Val(result).total_interest_paid))

C6_Witness ==
    /\ C6_Case
    /\ pc = "return"
    /\ RGt(Val(remaining_balance), RZero)
    /\ RSign(Val(result).total_interest_paid) = 0

----------------------------------------------------------------------------
(* The simulators' claims, checked under SpecSim. *)

(* The last entry of a run's rent_net_worth list. *)
FinalRentNetWorth(r) == r.rent_net_worth[Len(r.rent_net_worth)]

(* Two lists of numbers agree entry by entry. *)
SameValues(a, b) ==
    /\ Len(a) = Len(b)
    /\ \A i \in 1..Len(a) : REq(a[i], b[i])

(* What a simulator that has returned handed back has the length          *)
(* loan_term * 12 in each of its lists, the month list counting from 0.   *)
ReturnsWholeTerm(r) ==
    r.pc = "return" =>
        /\ Len(Val(r.returned)[1]) = scenario.loan_term * 12
        /\ Len(Val(r.returned)[2]) = scenario.loan_term * 12
        /\ Len(Val(r.returned)[3]) = scenario.loan_term * 12
        /\ \A i \in 1..(scenario.loan_term * 12) : Val(r.returned)[3][i] = i - 1

(* C7: each of the three simulators returns a buy_net_worth list, a       *)
(* rent_net_worth list and a month list of length loan_term * 12, and the *)
(* month list is 0, 1, ..., loan_term * 12 - 1 in increasing order.       *)
C7_ListsCoverWholeTerm ==
    /\ ReturnsWholeTerm(run1)
    /\ ReturnsWholeTerm(run2)
    /\ ReturnsWholeTerm(run3)

C7_Witness ==
    /\ run1.pc = "return"
    /\ run2.pc = "return"
    /\ run3.pc = "return"
    /\ scenario.loan_term = 2
    /\ Len(Val(run3.returned)[1]) = 24
    /\ Val(run3.returned)[3][24] = 23

(* One month of a two-pool simulator, from the locals r to the locals q:  *)
(* the month's savings went to the ETF pool alone, the savings pool grew  *)
(* by its own return at the yearly rate rate2 and by nothing else, which  *)
(* makes it share * down_payment * (1 + rate2/12)^(month + 1), and it did *)
(* not decrease.                                                          *)
SavingsPoolUntouched(r, q, share, rate2) ==
    (r.pc = "loop" /\ q.pc = "loop" /\ q.month # r.month) =>
        /\ REq(q.invested_capital_ETF,
               RMul(RAdd(r.invested_capital_ETF, Val(q.monthly_savings)),
                    RAdd(RInt(1), RDiv(scenario.investment_return_rate, RInt(12)))))
        /\ REq(q.invested_capital_savings,
               RMul(r.invested_capital_savings,
                    RAdd(RInt(1), RDiv(rate2, RInt(12)))))
        /\ REq(q.invested_capital_savings,
               RMul(RMul(share, scenario.down_payment),
                    RPow(RAdd(RInt(1), RDiv(rate2, RInt(12))), Val(q.month) + 1)))
        /\ RGe(q.invested_capital_savings, r.invested_capital_savings)

(* C8: in the Balanced and the Conservative policy every month's savings  *)
(* delta, positive or negative, is added to the ETF pool only; the        *)
(* savings pool changes by its own return only, so that after month m it  *)
(* is its share of the down payment (3/4 resp. 7/8) times                 *)
(* (1 + rate2/12)^(m + 1), and it never decreases.                        *)
C8_SavingsDeltaOnlyToETF ==
    [][ /\ SavingsPoolUntouched(run2, run2', RFrac(3, 4), BalancedSpread(scenario))
        /\ SavingsPoolUntouched(run3, run3', RFrac(7, 8), ConservativeSpread(scenario))
      ]_vars

C8_Witness ==
    /\ run3.pc = "loop"
    /\ run3.month # None
    /\ Val(run3.month) >= 1
    /\ RSign(scenario.down_payment) > 0
    /\ RSign(Val(run3.monthly_savings)) < 0
    /\ RGt(run3.invested_capital_savings,
           RMul(RFrac(7, 8), scenario.down_payment))

(* The savings spreads as the allocation table gives them. *)
CappedSpread ==
    RMaxOf(RMinOf(RSub(scenario.loan_interest_rate, RFrac(2, 100)), RFrac(1, 100)),
           RInt(0))

UncappedSpread ==
    RMaxOf(RSub(scenario.loan_interest_rate, RFrac(2, 100)), RInt(0))

AllReturned ==
    /\ run1.pc = "return"
    /\ run2.pc = "return"
    /\ run3.pc = "return"

(* C9 as stated: on one scenario the final rent_net_worth is ordered      *)
(* Optimistic >= Balanced >= Conservative whenever the investment return  *)
(* rate is greater than the capped savings spread.                        *)
C9_OrderingAsStated ==
    (AllReturned /\ RGt(scenario.investment_return_rate, CappedSpread)) =>
        /\ RGe(FinalRentNetWorth(run1), FinalRentNetWorth(run2))
        /\ RGe(FinalRentNetWorth(run2), FinalRentNetWorth(run3))

(* C9: on one scenario, whenever the investment return rate is greater    *)
(* than the capped savings spread the final rent_net_worth of Optimistic  *)
(* and of Balanced is at least that of Conservative; Optimistic is at     *)
(* least Balanced whenever the investment return rate is at least the     *)
(* uncapped spread max(loan_interest_rate - 0.02, 0), which Balanced's    *)
(* savings pool earns.                                                    *)
C9_OrderingByEachPoolsRate ==
    AllReturned =>
        /\ RGt(scenario.investment_return_rate, CappedSpread) =>
               /\ RGe(FinalRentNetWorth(run1), FinalRentNetWorth(run3))
               /\ RGe(FinalRentNetWorth(run2), FinalRentNetWorth(run3))
        /\ RGe(scenario.investment_return_rate, UncappedSpread) =>
               RGe(FinalRentNetWorth(run1), FinalRentNetWorth(run2))

C9_Witness ==
    /\ AllReturned
    /\ RGt(scenario.investment_return_rate, UncappedSpread)
    /\ RGt(UncappedSpread, CappedSpread)
    /\ RGt(FinalRentNetWorth(run1), FinalRentNetWorth(run2))
    /\ RGt(FinalRentNetWorth(run2), FinalRentNetWorth(run3))

(* One month of a simulator, from the locals r to the locals q: the       *)
(* month's savings delta is the one buying_vs_renting has for that month. *)
SameSavingsDelta(r, q) ==
    (r.pc = "loop" /\ q.pc = "loop" /\ q.month # r.month) =>
        REq(Val(q.monthly_savings),
            MonthlySavings1(scenario, run1.monthly_payment, Val(q.month)))

(* C10: on one scenario the three simulators return the same              *)
(* buy_net_worth list and the same month list, and every month's savings  *)
(* delta is the same in all three; with down_payment = 0 they return the  *)
(* same rent_net_worth list too.                                          *)
C10_PoliciesDifferOnlyInAllocation ==
    [][ /\ SameSavingsDelta(run2, run2')
        /\ SameSavingsDelta(run3, run3')
        /\ (run3.pc = "loop" /\ run3'.pc = "return") =>
               /\ SameValues(Val(run1.returned)[1], Val(run2.returned)[1])
               /\ SameValues(Val(run1.returned)[1], Val(run3'.returned)[1])
               /\ Val(run1.returned)[3] = Val(run2.returned)[3]
               /\ Val(run1.returned)[3] = Val(run3'.returned)[3]
               /\ RSign(scenario.down_payment) = 0 =>
                      /\ SameValues(Val(run1.returned)[2], Val(run2.returned)[2])
                      /\ SameValues(Val(run1.returned)[2], Val(run3'.returned)[2])
      ]_vars

C10_Witness ==
    /\ AllReturned
    /\ RSign(scenario.down_payment) > 0
    /\ RSign(scenario.loan_interest_rate) > 0
    /\ SameValues(Val(run1.returned)[1], Val(run3.returned)[1])
    /\ ~REq(FinalRentNetWorth(run1), FinalRentNetWorth(run3))

(* 1 + investment_return_rate/12, the monthly growth of the growth pool. *)
GrowthFactor == RAdd(RInt(1), RDiv(scenario.investment_return_rate, RInt(12)))

(* A pool went from before to after in a month with the savings delta     *)
(* savings: the delta was added first and the return applied to the sum;  *)
(* where the two orders differ (delta and rate both nonzero) it is not    *)
(* the return applied first and the delta added afterwards.               *)
ContributionThenReturn(before, after, savings) ==
    /\ REq(after, RMul(RAdd(before, savings), GrowthFactor))
    /\ (RSign(savings) # 0 /\ RSign(scenario.investment_return_rate) # 0) =>
           ~REq(after, RAdd(RMul(before, GrowthFactor), savings))

(* The step from r to q is one month of the loop of a simulator. *)
MonthStep(r, q) == r.pc = "loop" /\ q.pc = "loop" /\ q.month # r.month

(* The list was extended by one entry, the value v. *)
Appended(before, after, v) ==
    /\ Len(after) = Len(before) + 1
    /\ SubSeq(after, 1, Len(before)) = before
    /\ REq(after[Len(after)], v)

(* C12: in every policy the month's savings delta is added to the growth  *)
(* (or sole) pool first and the return is applied to the new total, not   *)
(* the other way round; the rent_net_worth recorded for the month is the  *)
(* total invested capital after that contribution and return.             *)
C12_ContributionBeforeReturn ==
    [][ /\ MonthStep(run1, run1') =>
               /\ ContributionThenReturn(run1.invested_capital,
                                         run1'.invested_capital,
                                         Val(run1'.monthly_savings))
               /\ Appended(run1.rent_net_worth, run1'.rent_net_worth,
                           run1'.invested_capital)
        /\ MonthStep(run2, run2') =>
               /\ ContributionThenReturn(run2.invested_capital_ETF,
                                         run2'.invested_capital_ETF,
                                         Val(run2'.monthly_savings))
               /\ Appended(run2.rent_net_worth, run2'.rent_net_worth,
                           RAdd(run2'.invested_capital_ETF,
                                run2'.invested_capital_savings))
        /\ MonthStep(run3, run3') =>
               /\ ContributionThenReturn(run3.invested_capital_ETF,
                                         run3'.invested_capital_ETF,
                                         Val(run3'.monthly_savings))
               /\ Appended(run3.rent_net_worth, run3'.rent_net_worth,
                           RAdd(run3'.invested_capital_ETF,
                                run3'.invested_capital_savings))
      ]_vars

C12_Witness ==
    /\ run2.pc = "loop"
    /\ run2.month # None
    /\ Val(run2.month) >= 1
    /\ RSign(scenario.investment_return_rate) > 0
    /\ RSign(scenario.down_payment) > 0
    /\ RSign(Val(run2.monthly_savings)) > 0
    /\ REq(run2.rent_net_worth[Len(run2.rent_net_worth)],
           RAdd(run2.invested_capital_ETF, run2.invested_capital_savings))

(* The loan of the scenario and its monthly rate. *)
ScenarioLoan == RSub(scenario.purchase_price, scenario.down_payment)

ScenarioMonthlyRate == RDiv(scenario.loan_interest_rate, RInt(12))

(* The cost paid up front: purchase_price * nebenkost_rate + refurbish. *)
UpfrontCost ==
    RAdd(RMul(scenario.purchase_price, scenario.nebenkost_rate), scenario.refurbish)

(* The property value of month k: purchase_price * (1 + rate/12)^k. *)
PropertyValueAt(k) ==
    RMul(scenario.purchase_price,
         RPow(RAdd(RInt(1), RDiv(scenario.property_appreciation_rate, RInt(12))), k))

(* B(k): the balance of the loan after k payments, month by month: each   *)
(* month the balance bears interest and the payment is taken off.         *)
RECURSIVE BalanceAfter(_, _, _, _)
BalanceAfter(loan, rate, payment, k) ==
    IF k = 0 THEN loan
    ELSE RSub(RMul(BalanceAfter(loan, rate, payment, k - 1), RAdd(RInt(1), rate)),
              payment)

(* The month the step from r to q processed appended to buy_net_worth the *)
(* property value of month m less B(m + 1) less the upfront cost.         *)
BuySideOfMonth(r, q) ==
    MonthStep(r, q) =>
        Appended(r.buy_net_worth, q.buy_net_worth,
                 RSub(RSub(PropertyValueAt(Val(q.month)),
                           BalanceAfter(ScenarioLoan, ScenarioMonthlyRate,
                                        q.monthly_payment, Val(q.month) + 1)),
                      UpfrontCost))

(* C13: for every month m of the term, buy_net_worth[m] is                *)
(* purchase_price * (1 + appreciation_rate/12)^m - B(m + 1)               *)
(* - (purchase_price * nebenkost_rate + refurbish), B(k) the balance of   *)
(* the loan purchase_price - down_payment after k payments of the fixed   *)
(* monthly payment; nothing else enters the buy side.                     *)
C13_BuyNetWorthFormula ==
    [][ /\ BuySideOfMonth(run1, run1')
        /\ BuySideOfMonth(run2, run2')
        /\ BuySideOfMonth(run3, run3') ]_vars

C13_Witness ==
    /\ run1.pc = "loop"
    /\ run1.month # None
    /\ Val(run1.month) = 5
    /\ RSign(scenario.loan_interest_rate) > 0
    /\ RSign(scenario.down_payment) > 0
    /\ REq(run1.buy_net_worth[6],
           RSub(RSub(PropertyValueAt(5),
                     BalanceAfter(ScenarioLoan, ScenarioMonthlyRate,
                                  run1.monthly_payment, 6)),
                UpfrontCost))

----------------------------------------------------------------------------
(* The payment the simulators compute (line 84) for the loan, rate and    *)
(* term of the call of calculate_amortization under way.                  *)
SimulatorPayment ==
    NpfPmt(RDiv(annual_interest_rate, RInt(12)), Val(loan_term) * 12,
           RNeg(loan_amount))

(* C14: the payment npf.pmt gives the simulators for rate/12,             *)
(* loan_term * 12 and the loan amount is the monthly_payment that         *)
(* calculate_amortization returns in term-known mode for the same loan    *)
(* amount, rate and term, for every rate >= 0; at rate 0 both are         *)
(* loan_amount / (term * 12).                                             *)
C14_SimulatorPaymentIsAmortizationPayment ==
    (pc = "return" /\ loan_term # None) =>
        /\ REq(Val(result).monthly_payment, SimulatorPayment)
        /\ RSign(annual_interest_rate) = 0 =>
               REq(RMul(SimulatorPayment, RInt(Val(loan_term) * 12)), loan_amount)

C14_Witness ==
    /\ pc = "return"
    /\ loan_term # None
    /\ Val(loan_term) = 2
    /\ RSign(annual_interest_rate) > 0
    /\ RSign(loan_amount) > 0
    /\ REq(Val(result).monthly_payment, SimulatorPayment)

(* The balance the walk has after a month that began with the balance b:  *)
(* b less the month's principal, and 0 where that would be negative.      *)
WalkedBalance(b, payment, rate) ==
    RMaxOf(RSub(b, RSub(payment, RMul(b, rate))), RZero)

(* C15: after either solve branch the walk starts from the whole loan and *)
(* no interest, each of its months adds balance * rate/12 to              *)
(* total_interest_paid and takes payment - interest off the balance,      *)
(* clamped at 0, and it covers the months 1..total_months; the walked     *)
(* balance and total_interest_paid are never negative (loan_amount > 0,   *)
(* rate >= 0), and total_interest_paid is what the call returns.          *)
C15_InterestIsSumOverWalk ==
    [][ /\ (pc # "walk" /\ pc' = "walk") =>
               /\ REq(Val(remaining_balance'), loan_amount)
               /\ RSign(Val(total_interest_paid')) = 0
               /\ Val(m') = 1
        /\ (pc = "walk" /\ pc' = "walk") =>
               /\ Val(m) <= Val(total_months)
               /\ Val(m') = Val(m) + 1
               /\ REq(Val(interest'),
                      RMul(Val(remaining_balance), Val(monthly_interest_rate)))
               /\ REq(Val(total_interest_paid'),
                      RAdd(Val(total_interest_paid), Val(interest')))
               /\ REq(Val(remaining_balance'),
                      WalkedBalance(Val(remaining_balance), Val(monthly_payment),
                                    Val(monthly_interest_rate)))
               /\ RGe(Val(remaining_balance'), RZero)
               /\ RGe(Val(total_interest_paid'), RZero)
        /\ (pc = "walk" /\ pc' = "return") =>
               /\ Val(m) = Val(total_months) + 1
               /\ REq(Val(result').total_interest_paid, Val(total_interest_paid))
               /\ RGe(Val(result').total_interest_paid, RZero)
      ]_vars

C15_Witness ==
    /\ pc = "walk"
    /\ loan_term = None
    /\ Val(m) = Val(total_months) + 1
    /\ RSign(annual_interest_rate) > 0
    /\ RSign(Val(remaining_balance)) = 0
    /\ principal # None
    /\ RGt(RMul(Val(principal), Val(monthly_interest_rate)), Val(interest))
    /\ RGt(Val(total_interest_paid), RZero)

(* C16: with loan_amount = 0 a call in either mode does not return a      *)
(* result: it gets as far as the repayment-rate division of lines 64-65,  *)
(* which nothing guards, and fails there with a division by zero.         *)
C16_ZeroLoanFailsAtRepaymentRate ==
    (RSign(loan_amount) = 0 /\ ~BothOrNeither) =>
        /\ pc # "return"
        /\ result = None
        /\ pc = "raise" =>
               /\ error = Some(ZeroDivisionError)
               /\ Val(m) = Val(total_months) + 1

C16_Witness ==
    /\ RSign(loan_amount) = 0
    /\ loan_term = None
    /\ monthly_payment # None
    /\ RSign(Val(monthly_payment)) > 0
    /\ pc = "raise"
    /\ error = Some(ZeroDivisionError)
    /\ Val(total_months) = 0

(* A payment-known call on a positive loan whose payment is greater than  *)
(* the first month's interest (the rates of the model are >= 0).          *)
C17_Case ==
    /\ loan_term = None
    /\ monthly_payment # None
    /\ RGt(loan_amount, RZero)
    /\ RGe(annual_interest_rate, RZero)
    /\ RGt(Val(monthly_payment), FirstInterest)

(* C17: in a payment-known call with loan_amount > 0, rate >= 0 and       *)
(* payment > loan_amount * rate/12, every iteration of the loop has a     *)
(* principal that is positive and not smaller than that of the iteration  *)
(* before, the balance strictly decreases, and the call never raises.     *)
C17_PaymentAboveInterestNeverRaises ==
    [][ C17_Case =>
          /\ pc' # "raise"
          /\ error' = None
          /\ (pc = "loop" /\ months' # months) =>
                 /\ RGt(Val(principal'), RZero)
                 /\ Val(months) > 0 => RGe(Val(principal'), Val(principal))
                 /\ RLt(Val(remaining_balance'), Val(remaining_balance))
      ]_vars

C17_Witness ==
    /\ C17_Case
    /\ pc = "loop"
    /\ Val(months) >= 2
    /\ RSign(annual_interest_rate) > 0
    /\ RGt(Val(principal), RSub(Val(monthly_payment), FirstInterest))
    /\ RGt(Val(remaining_balance), RZero)

(* What n payments leave after repaying the loan: n * payment - loan. *)
PaidBeyondLoan(n) ==
    RSub(RMul(RInt(n), Val(result).monthly_payment), loan_amount)

(* A payment-known call has returned and its loop was not cut by the cap. *)
C18_Case ==
    /\ pc = "return"
    /\ loan_term = None
    /\ Val(months) <= CapYears * MonthsPerYear

(* C18: when the payment-known loop ends by depletion, the result has     *)
(* (total_months - 1) * monthly_payment - loan_amount < total_interest_paid *)
(* <= total_months * monthly_payment - loan_amount.                       *)
C18_PaymentAccounting ==
    C18_Case =>
        /\ RLt(PaidBeyondLoan(Val(result).total_months - 1),
               Val(result).total_interest_paid)
        /\ RLe(Val(result).total_interest_paid,
               PaidBeyondLoan(Val(result).total_months))

C18_Witness ==
    /\ C18_Case
    /\ first = None
    /\ Val(result).total_months >= 2
    /\ RSign(annual_interest_rate) > 0
    /\ RLt(Val(result).total_interest_paid,
           PaidBeyondLoan(Val(result).total_months))

(* The outstanding balance that entered the last entry of a run's         *)
(* buy_net_worth: the month's property value less the upfront cost less   *)
(* that entry.                                                            *)
BalanceInLastEntry(r) ==
    RSub(RSub(PropertyValueAt(Val(r.month)), UpfrontCost),
         r.buy_net_worth[Len(r.buy_net_worth)])

(* Over the month the step from r to q processed, the outstanding balance *)
(* is below the loan in the first month, afterwards not above that of the *)
(* month before, and 0 in the last month, where the entry of              *)
(* buy_net_worth is the property value less the upfront cost.             *)
LoanPaidDown(r, q) ==
    MonthStep(r, q) =>
        /\ Val(q.month) = 0 => RLt(BalanceInLastEntry(q), ScenarioLoan)
        /\ Val(q.month) > 0 => RLe(BalanceInLastEntry(q), BalanceInLastEntry(r))
        /\ Val(q.month) = q.months - 1 =>
               /\ RSign(BalanceInLastEntry(q)) = 0
               /\ REq(q.buy_net_worth[q.months],
                      RSub(PropertyValueAt(q.months - 1), UpfrontCost))

(* C19: in all three simulators the outstanding balance B(k) of the buy   *)
(* side is below loan_amount at k = 1, non-increasing in k and 0 at       *)
(* k = term_months, so that the last entry of buy_net_worth is            *)
(* purchase_price * (1 + appreciation_rate/12)^(term_months - 1)          *)
(* - (purchase_price * nebenkost_rate + refurbish).                       *)
C19_LoanPaidOffAtTermEnd ==
    [][ /\ LoanPaidDown(run1, run1')
        /\ LoanPaidDown(run2, run2')
        /\ LoanPaidDown(run3, run3') ]_vars

C19_Witness ==
    /\ run3.pc = "return"
    /\ scenario.loan_term = 2
    /\ RSign(scenario.loan_interest_rate) > 0
    /\ RSign(BalanceInLastEntry(run3)) = 0
    /\ REq(run3.buy_net_worth[24], RSub(PropertyValueAt(23), UpfrontCost))

(* The interest of the first month, loan_amount * (rate/12). *)
FirstMonthInterest == RMul(loan_amount, RDiv(annual_interest_rate, RInt(MonthsPerYear)))

(* The payments collected so far decrease strictly from term to term. *)
StrictlyDecreasing(ps) ==
    \A i \in 1..Len(ps) : \A j \in 1..Len(ps) : i < j => RGt(ps[i], ps[j])

(* C20: for loan_amount > 0 and rate >= 0 the term-known monthly_payment  *)
(* is strictly decreasing in the term and strictly greater than           *)
(* loan_amount * (rate/12): the payments update_plot1 collects over its   *)
(* sweep of the terms decrease strictly, and initial_tilgung_rate of each *)
(* term-known result is strictly positive.                                *)
C20_PaymentDecreasesWithTerm ==
    RSign(loan_amount) > 0 =>
        /\ StrictlyDecreasing(payments)
        /\ \A i \in 1..Len(payments) : RGt(payments[i], FirstMonthInterest)
        /\ (pc \in {"return", "done"} /\ result # None) =>
               RSign(Val(result).initial_tilgung_rate) > 0

C20_Witness ==
    /\ pc = "done"
    /\ RSign(loan_amount) > 0
    /\ RSign(annual_interest_rate) > 0
    /\ Len(payments) = Len(terms)
    /\ Len(payments) >= 3
    /\ RGt(payments[1], payments[2])
    /\ RGt(payments[2], payments[3])
    /\ RGt(payments[3], FirstMonthInterest)

(* The locals of each simulator after the months from k on, run alone on  *)
(* the locals f.                                                          *)
RECURSIVE Alone1(_, _, _)
Alone1(s, f, k) == IF k >= f.months THEN f ELSE Alone1(s, Month1(s, f, k), k + 1)

RECURSIVE Alone2(_, _, _)
Alone2(s, f, k) == IF k >= f.months THEN f ELSE Alone2(s, Month2(s, f, k), k + 1)

RECURSIVE Alone3(_, _, _)
Alone3(s, f, k) == IF k >= f.months THEN f ELSE Alone3(s, Month3(s, f, k), k + 1)

(* The values buying_vs_renting returns from the locals f, and the values *)
(* buying_vs_renting2 and buying_vs_renting3 return.                      *)
ReturnedFrom(f) ==
    Some(<< f.buy_net_worth, f.rent_net_worth, MonthList(f.months), f.monthly_savings >>)

ReturnedListsFrom(f) ==
    Some(<< f.buy_net_worth, f.rent_net_worth, MonthList(f.months) >>)

====
